---- MODULE Spec2Model ----
(***************************************************************************)
(* Model of cloudwatch.runbook.py: a bash runbook that resolves a time     *)
(* window from three select parameters, pages through                      *)
(* `aws logs filter-log-events` and prints the events as a table.          *)
(*                                                                         *)
(* Representation notes.                                                   *)
(*  - A shell string that is used as text (a window token, a month name,   *)
(*    a log message) is a sequence of one-character strings.               *)
(*  - A shell variable that holds a number or the empty string is a set:   *)
(*    {} for the empty string, {n} for the decimal numeral n.              *)
(*  - TLC integers are 32 bits wide, so every *_ms variable holds its      *)
(*    value divided by 1000.  Nothing is lost: every millisecond quantity  *)
(*    the script computes is a whole number of seconds times 1000          *)
(*    (line 124 `date +%s`*1000, line 148 `+%s000`, line 162               *)
(*    window_seconds*1000).                                                *)
(*  - `date` is GNU date (the BSD fallbacks after `||` fail the same way   *)
(*    on an invalid date under GNU); the local time zone is a fixed offset *)
(*    from UTC.                                                            *)
(***************************************************************************)
EXTENDS Integers, Sequences, FiniteSets, TLC

VARIABLES
    \* ---- inputs and environment ----
    LOG_GROUP_NAME,   \* environment variable read at line 10
    relative_window,  \* rendered select parameter, line 27
    specific_month,   \* rendered select parameter, line 36
    specific_day,     \* rendered select parameter, line 46
    clock,            \* what `date +%s` answers (epoch seconds)
    tz,               \* local time zone, seconds east of UTC
    backlog,          \* events the log service still has to return
    pagesLeft,        \* pages the log service is still willing to return
    \* ---- program state ----
    pc,               \* position of the script
    now_ms,           \* line 124
    window_seconds,   \* line 125
    end_ms,           \* lines 148-158
    start_ms,         \* line 162
    next_token,       \* line 172 / 198
    total_events,     \* line 173 / 195
    events_file,      \* lines 171, 191: one @json line per event
    read_pos,         \* lines read so far by the loop of line 212
    \* ---- observable behaviour ----
    requests,         \* every filter-log-events command evaluated (line 182)
    responses,        \* what each of them answered
    stdout,           \* lines printed on standard output
    stderr,           \* lines printed on standard error
    exit_status       \* {} while running, {n} once the script has exited

vars == << LOG_GROUP_NAME, relative_window, specific_month, specific_day,
           clock, tz, backlog, pagesLeft, pc, now_ms, window_seconds,
           end_ms, start_ms, next_token, total_events, events_file,
           read_pos, requests, responses, stdout, stderr, exit_status >>

inputs == << LOG_GROUP_NAME, relative_window, specific_month, specific_day,
             clock, tz >>

----------------------------------------------------------------------------
(* Shell values *)

Empty == {}

Num(n) == {n}

\* The value of a variable named inside $(( )): the empty string is 0.
ArithVal(v) == IF v = {} THEN 0 ELSE CHOOSE n \in v : TRUE

\* [ $a -gt $b ]: with an empty operand the test is a syntax error (status 2),
\* so the `if` does not take its branch.
TestGt(a, b) == a # {} /\ b # {} /\ ArithVal(a) > ArithVal(b)

Min(a, b) == IF a < b THEN a ELSE b

----------------------------------------------------------------------------
(* window_to_seconds, lines 69-81 *)

DigitValue ==
    "0" :> 0 @@ "1" :> 1 @@ "2" :> 2 @@ "3" :> 3 @@ "4" :> 4 @@
    "5" :> 5 @@ "6" :> 6 @@ "7" :> 7 @@ "8" :> 8 @@ "9" :> 9

IsDigit(c) == c \in DOMAIN DigitValue

NotDigit(c) == ~IsDigit(c)

RECURSIVE Numeral(_, _)
\* The number a digit string denotes in the given base.
Numeral(ds, base) ==
    IF ds = << >> THEN 0
    ELSE Numeral(SubSeq(ds, 1, Len(ds) - 1), base) * base + DigitValue[ds[Len(ds)]]

\* $((num * k)) reads the digits in `num` as bash arithmetic does: the empty
\* string is 0, a leading 0 makes the constant octal, and an octal constant with
\* a digit 8 or 9 is an error ("value too great for base"): Empty.
ArithConst(ds) ==
    IF ds = << >> THEN Num(0)
    ELSE IF ds[1] = "0" /\ Len(ds) > 1
         THEN IF \E i \in 1..Len(ds) : DigitValue[ds[i]] >= 8
              THEN Empty
              ELSE Num(Numeral(ds, 8))
         ELSE Num(Numeral(ds, 10))

UnitSeconds ==
    << "m" >> :> 60 @@ << "h" >> :> 3600 @@ << "d" >> :> 86400 @@ << "w" >> :> 604800

\* What the function writes on its standard output, which the command
\* substitution of line 125 captures.  The `exit 1` of line 79 runs inside that
\* command substitution, so it ends the subshell, not the script; and the
\* status of `local x=$(...)` is that of `local`.
window_to_seconds(win) ==
    LET num  == SelectSeq(win, IsDigit)
        unit == SelectSeq(win, NotDigit)
    IN  IF unit \in DOMAIN UnitSeconds
        THEN IF ArithConst(num) = Empty
             THEN Empty
             ELSE Num(ArithVal(ArithConst(num)) * UnitSeconds[unit])
        ELSE Empty

\* Line 79: the message the function writes on standard error.
window_unsupported(win) == SelectSeq(win, NotDigit) \notin DOMAIN UnitSeconds

----------------------------------------------------------------------------
(* month_to_number, lines 83-99 *)

UpperToLower ==
    "A" :> "a" @@ "B" :> "b" @@ "C" :> "c" @@ "D" :> "d" @@ "E" :> "e" @@
    "F" :> "f" @@ "G" :> "g" @@ "H" :> "h" @@ "I" :> "i" @@ "J" :> "j" @@
    "K" :> "k" @@ "L" :> "l" @@ "M" :> "m" @@ "N" :> "n" @@ "O" :> "o" @@
    "P" :> "p" @@ "Q" :> "q" @@ "R" :> "r" @@ "S" :> "s" @@ "T" :> "t" @@
    "U" :> "u" @@ "V" :> "v" @@ "W" :> "w" @@ "X" :> "x" @@ "Y" :> "y" @@
    "Z" :> "z"

\* tr '[:upper:]' '[:lower:]'
ToLower(s) ==
    [ i \in 1..Len(s) |-> IF s[i] \in DOMAIN UpperToLower THEN UpperToLower[s[i]] ELSE s[i] ]

MonthNames == <<
    << "j","a","n","u","a","r","y" >>,
    << "f","e","b","r","u","a","r","y" >>,
    << "m","a","r","c","h" >>,
    << "a","p","r","i","l" >>,
    << "m","a","y" >>,
    << "j","u","n","e" >>,
    << "j","u","l","y" >>,
    << "a","u","g","u","s","t" >>,
    << "s","e","p","t","e","m","b","e","r" >>,
    << "o","c","t","o","b","e","r" >>,
    << "n","o","v","e","m","b","e","r" >>,
    << "d","e","c","e","m","b","e","r" >> >>

month_to_number(name) ==
    LET lower == ToLower(name)
    IN  IF \E i \in 1..Len(MonthNames) : MonthNames[i] = lower
        THEN CHOOSE i \in 1..Len(MonthNames) : MonthNames[i] = lower
        ELSE 0

----------------------------------------------------------------------------
(* `date`: the calendar *)

SecondsPerDay == 86400

IsLeap(y) == (y % 4 = 0 /\ y % 100 # 0) \/ y % 400 = 0

DaysInMonth(y, m) ==
    IF m = 2 THEN (IF IsLeap(y) THEN 29 ELSE 28)
    ELSE IF m \in {4, 6, 9, 11} THEN 30 ELSE 31

\* Days from 1970-01-01 to the civil date y-m-d.
DaysFromCivil(y, m, d) ==
    LET yy  == IF m <= 2 THEN y - 1 ELSE y
        era == yy \div 400
        yoe == yy - era * 400
        mp  == IF m > 2 THEN m - 3 ELSE m + 9
        doy == (153 * mp + 2) \div 5 + d - 1
        doe == yoe * 365 + yoe \div 4 - yoe \div 100 + doy
    IN  era * 146097 + doe - 719468

\* The civil date of a day counted from 1970-01-01.
CivilFromDays(days) ==
    LET z   == days + 719468
        era == z \div 146097
        doe == z - era * 146097
        yoe == (doe - doe \div 1460 + doe \div 36524 - doe \div 146096) \div 365
        doy == doe - (365 * yoe + yoe \div 4 - yoe \div 100)
        mp  == (5 * doy + 2) \div 153
        d   == doy - (153 * mp + 2) \div 5 + 1
        m   == IF mp < 10 THEN mp + 3 ELSE mp - 9
        y   == yoe + era * 400 + (IF m <= 2 THEN 1 ELSE 0)
    IN  [year |-> y, month |-> m, day |-> d]

\* date +%Y, date +%-m, date +%-d: the local calendar date of the clock.
LocalDate(secs, offset) == CivilFromDays((secs + offset) \div SecondsPerDay)

\* date -d "YYYY-MM-DD 23:59:59" +%s000 2>/dev/null (line 148): the epoch
\* second of that local time, or nothing when the date does not exist.
date_end_of_day(y, m, d, offset) ==
    IF m \in 1..12 /\ d \in 1..DaysInMonth(y, m)
    THEN Num(DaysFromCivil(y, m, d) * SecondsPerDay + 23 * 3600 + 59 * 60 + 59 - offset)
    ELSE Empty

----------------------------------------------------------------------------
(* Log events and their messages *)

Newline == "\n"

\* $( ... ) removes every trailing newline of what the command printed.
RECURSIVE StripTrailingNewlines(_)
StripTrailingNewlines(s) ==
    IF s # << >> /\ s[Len(s)] = Newline
    THEN StripTrailingNewlines(SubSeq(s, 1, Len(s) - 1))
    ELSE s

RECURSIVE Flatten(_)
Flatten(ss) == IF ss = << >> THEN << >> ELSE Head(ss) \o Flatten(Tail(ss))

\* JSON values of the fields the script looks at: a string, null or false.
JString(s) == [t |-> "string", s |-> s]
JNull      == [t |-> "null", s |-> << >>]
JFalse     == [t |-> "false", s |-> << >>]

\* The JSON text of a string: a newline is written as the two characters \n.
JsonText(v) ==
    IF v.t = "string"
    THEN << "\"" >>
         \o Flatten([ i \in 1..Len(v.s) |->
                      IF v.s[i] = Newline THEN << "\\", "n" >> ELSE << v.s[i] >> ])
         \o << "\"" >>
    ELSE IF v.t = "null" THEN << "n", "u", "l", "l" >>
    ELSE << "f", "a", "l", "s", "e" >>

\* A message that is a JSON object, given as its <<name, value>> members in
\* order: its text as the service sends it, and what jq reads from it.
ObjectMessage(members) ==
    [ raw    |-> << "{" >>
                 \o Flatten([ i \in 1..Len(members) |->
                              (IF i > 1 THEN << "," >> ELSE << >>)
                              \o << "\"" >> \o members[i][1] \o << "\"", ":" >>
                              \o JsonText(members[i][2]) ])
                 \o << "}" >>,
      parses |-> TRUE,
      fields |-> [ n \in { members[i][1] : i \in 1..Len(members) } |->
                   members[CHOOSE i \in 1..Len(members) : members[i][1] = n][2] ] ]

\* A message that is not JSON: jq fails on it.
TextMessage(text) == [ raw |-> text, parses |-> FALSE, fields |-> << >> ]

\* [[ "$raw" =~ ^\{.*\}$ ]], line 104.
looks_like_object(raw) == Len(raw) >= 2 /\ raw[1] = "{" /\ raw[Len(raw)] = "}"

FieldOrder == << << "l","o","g" >>, << "m","e","s","s","a","g","e" >>, << "m","s","g" >> >>

\* $(echo "$raw" | jq -r ".$field // empty" 2>/dev/null), line 108: nothing when
\* jq cannot parse the message, when the field is missing, null or false;
\* otherwise the string itself, its trailing newlines removed by $( ).
jq_field(msg, field) ==
    IF ~msg.parses \/ field \notin DOMAIN msg.fields THEN << >>
    ELSE IF msg.fields[field].t # "string" THEN << >>
    ELSE StripTrailingNewlines(msg.fields[field].s \o << Newline >>)

CutWidth == 120

\* cut -c1-120, line 115 (the messages of this model hold no inner newline).
cut_raw(raw) == SubSeq(raw, 1, Min(Len(raw), CutWidth))

\* A variant that accepts whatever jq printed, nothing included.
field_found_always(extracted) == TRUE

\* The test of line 109 that accepts an extracted field.
field_found(extracted) == extracted # << >>

\* extract_message, lines 101-119, as captured by $(extract_message "$message")
\* at line 228.
extract_message(msg) ==
    IF looks_like_object(msg.raw)
    THEN LET found == { i \in 1..Len(FieldOrder) : field_found(jq_field(msg, FieldOrder[i])) }
         IN  IF found # {}
             THEN StripTrailingNewlines(
                      jq_field(msg, FieldOrder[CHOOSE i \in found : \A j \in found : i <= j])
                      \o << Newline >>)
             ELSE StripTrailingNewlines(cut_raw(msg.raw) \o << Newline >>)
    ELSE StripTrailingNewlines(msg.raw \o << Newline >>)

\* Lines 216-231: the row printed for one event.  `timestamp/1000` drops the
\* milliseconds before `date` formats the time.
render_row(event) ==
    [ kind |-> "row",
      data |-> [ event_time  |-> event.timestamp \div 1000,
                 ing_time    |-> IF event.ingestionTime = Empty THEN Empty
                                 ELSE Num(ArithVal(event.ingestionTime) \div 1000),
                 display_msg |-> extract_message(event.message) ] ]

----------------------------------------------------------------------------
(* The time window, lines 124-162 *)

Current == << "c","u","r","r","e","n","t" >>

\* The options of the specificDay select, lines 41-43, after "current".
DayOptions == [ d \in 1..31 |-> d ]

current_day == 0

\* Line 129.
specific_date_mode(month_param, day_param) ==
    month_param # Current \/ day_param # current_day

\* Lines 131-148: the instant `date` gives for the end of the chosen day.
end_of_chosen_day(month_param, day_param, clk, offset) ==
    LET today == LocalDate(clk, offset)
        month == IF month_param # Current THEN month_to_number(month_param)
                 ELSE today.month
        day   == IF day_param # current_day THEN DayOptions[day_param]
                 ELSE today.day
    IN  date_end_of_day(today.year, month, day, offset)

\* Lines 151-153: cap at the current time if it lies in the future.
cap_at_now(end, now) == IF TestGt(end, now) THEN now ELSE end

\* Line 162: start_ms=$((end_ms - (window_seconds * 1000))).
window_start(end, win_seconds) == Num(ArithVal(end) - ArithVal(win_seconds))

\* A variant that takes the start from the end of the day before the cap.
resolve_window_uncapped_start(win_seconds, month_param, day_param, clk, offset) ==
    LET now == Num(clk)
        raw == IF specific_date_mode(month_param, day_param)
               THEN end_of_chosen_day(month_param, day_param, clk, offset)
               ELSE now
    IN  [ end_ms |-> cap_at_now(raw, now), start_ms |-> window_start(raw, win_seconds) ]

\* Lines 128-162: the end and the start of the window.
resolve_window(win_seconds, month_param, day_param, clk, offset) ==
    LET now == Num(clk)
        end == IF specific_date_mode(month_param, day_param)
               THEN cap_at_now(end_of_chosen_day(month_param, day_param, clk, offset), now)
               ELSE now
    IN  [ end_ms |-> end, start_ms |-> window_start(end, win_seconds) ]

----------------------------------------------------------------------------
(* The fetch loop, lines 171-203 *)

NoToken == ""

\* A variant that never attaches the token.
build_request_without_token(group, start, end, token) ==
    [ log_group_name |-> group, start_time |-> start, end_time |-> end,
      next_token |-> NoToken ]

\* Lines 176-180: the command line of one request.
build_request(group, start, end, token) ==
    [ log_group_name |-> group, start_time |-> start, end_time |-> end,
      next_token |-> token ]

\* Line 184 tests $? right after `local response=$(eval $cmd 2>/dev/null)`:
\* it sees the status of `local`, which is 0 whatever the command returned.
status_seen(call_status) == 0

\* A variant that writes with > instead of >>.
append_events_overwrite(file, events) == events

\* Line 191: the events of a page are appended to the file.
append_events(file, events) == file \o events

\* A variant that forgets the running total.
add_batch_overwrite(total, events) == Len(events)

\* Lines 194-195.
add_batch(total, events) == total + Len(events)

\* A variant that leaves the loop after the first page.
loop_never_continues(token) == FALSE

\* Lines 200-202: the loop goes on while the response carried a token.
loop_continues(token) == token # NoToken

log_group_name == LOG_GROUP_NAME

Line(kind, data) == [ kind |-> kind, data |-> data ]

----------------------------------------------------------------------------
(* Inputs *)

MaxPages == 3

MaxBacklog == 3

ResolvePages == 2

Groups == { "", "/aws/app" }

Windows == {
    << "5", "m" >>, << "3", "0", "m" >>, << "1", "h" >>, << "2", "d" >>,
    << "4", "w" >>, << "0", "m" >>, << "m" >>, << "5", "x" >>, << "5" >>,
    << "0", "8", "m" >>, << "0", "1", "0", "m" >>, << >> }

Months == {
    Current,
    << "J","a","n","u","a","r","y" >>, << "j","a","n","u","a","r","y" >>,
    << "J","A","N","U","A","R","Y" >>, << "F","e","b","r","u","a","r","y" >>,
    << "J","u","n","e" >>, << "D","e","c","e","m","b","e","r" >>,
    << "S","m","a","r","c","h" >> }

Days == { current_day, 1, 15, 30 }

\* 2024-01-01T00:30:00Z, 2024-06-15T12:00:00Z, 2024-12-31T23:30:00Z
Clocks == { 1704069000, 1718452800, 1735687800 }

\* UTC and UTC-5
Zones == { 0, -18000 }

TokenPool == { "tokA", "tokB" }

Event(ts, ing, msg) == [ timestamp |-> ts, ingestionTime |-> ing, message |-> msg ]

PlainText == TextMessage(<< "p","l","a","i","n" >>)

LogHello == ObjectMessage(<< << << "l","o","g" >>, JString(<< "h","i",Newline >>) >> >>)

EventPool == { Event(1500, Num(2750), PlainText), Event(61250, Empty, LogHello) }

SeqsUpTo(S, n) == UNION { [ 1..k -> S ] : k \in 0..n }

TypicalInputs ==
    /\ relative_window = << "5", "m" >>
    /\ specific_month = Current
    /\ specific_day \in { current_day, 15 }
    /\ clock = 1718452800
    /\ tz = 0

ProgramInit ==
    /\ pc = "start"
    /\ now_ms = Empty
    /\ window_seconds = Empty
    /\ end_ms = Empty
    /\ start_ms = Empty
    /\ next_token = NoToken
    /\ total_events = 0
    /\ events_file = << >>
    /\ read_pos = 0
    /\ requests = << >>
    /\ responses = << >>
    /\ stdout = << >>
    /\ stderr = << >>
    /\ exit_status = Empty

\* Every window, month, day, clock and zone; a service with little to say.
Init ==
    /\ LOG_GROUP_NAME \in Groups
    /\ relative_window \in Windows
    /\ specific_month \in Months
    /\ specific_day \in Days
    /\ clock \in Clocks
    /\ tz \in Zones
    /\ backlog \in SeqsUpTo({ Event(1500, Num(2750), PlainText) }, 1)
    /\ pagesLeft = ResolvePages
    /\ ProgramInit

\* A plain window; every backlog of the service up to MaxBacklog events.
InitFetch ==
    /\ LOG_GROUP_NAME \in Groups
    /\ TypicalInputs
    /\ backlog \in SeqsUpTo(EventPool, MaxBacklog)
    /\ pagesLeft = MaxPages
    /\ ProgramInit

MessagePool == {
    PlainText,
    TextMessage(<< "p","l","a","i","n",Newline >>),
    TextMessage(<< "{","b","a","d","}" >>),
    LogHello,
    ObjectMessage(<< << FieldOrder[1], JString(<< >>) >>, << FieldOrder[2], JString(<< "m" >>) >> >>),
    ObjectMessage(<< << FieldOrder[1], JString(<< "l" >>) >>, << FieldOrder[2], JString(<< "m" >>) >>,
                     << FieldOrder[3], JString(<< "g" >>) >> >>),
    ObjectMessage(<< << FieldOrder[3], JString(<< "g" >>) >>, << FieldOrder[2], JString(<< "m" >>) >> >>),
    ObjectMessage(<< << FieldOrder[3], JString(<< "g" >>) >> >>),
    ObjectMessage(<< << FieldOrder[1], JNull >>, << FieldOrder[3], JString(<< "g" >>) >> >>),
    ObjectMessage(<< << FieldOrder[1], JFalse >>, << FieldOrder[2], JString(<< "m" >>) >> >>),
    ObjectMessage(<< << FieldOrder[2], JString(<< Newline >>) >>, << FieldOrder[3], JString(<< "g" >>) >> >>),
    ObjectMessage(<< << << "o","t","h","e","r" >>, JString(<< "x" >>) >> >>),
    ObjectMessage(<< << << "o","t","h","e","r" >>, JString([ i \in 1..(CutWidth + 10) |-> "x" ]) >> >>),
    ObjectMessage(<< >>) }

\* A plain window; a service with one event, of every kind of message.
InitMessages ==
    /\ LOG_GROUP_NAME \in Groups
    /\ TypicalInputs
    /\ backlog \in { << Event(1500, Empty, m) >> : m \in MessagePool }
    /\ pagesLeft = ResolvePages
    /\ ProgramInit

----------------------------------------------------------------------------
(* The script, step by step *)

\* Lines 10-16.
CheckLogGroup ==
    /\ pc = "start"
    /\ IF log_group_name = ""
       THEN /\ stdout' = stdout \o << Line("error", "LOG_GROUP_NAME is not set"),
                                      Line("error", "usage") >>
            /\ exit_status' = Num(1)
            /\ pc' = "done"
       ELSE /\ pc' = "main"
            /\ UNCHANGED << stdout, exit_status >>
    /\ UNCHANGED << inputs, backlog, pagesLeft, now_ms, window_seconds, end_ms,
                    start_ms, next_token, total_events, events_file, read_pos,
                    requests, responses, stderr >>

\* Lines 124-162.
ResolveWindow ==
    /\ pc = "main"
    /\ now_ms' = Num(clock)
    /\ window_seconds' = window_to_seconds(relative_window)
    /\ stderr' = IF window_to_seconds(relative_window) = Empty
                 THEN Append(stderr,
                             IF window_unsupported(relative_window)
                             THEN Line("error", "Unsupported window")
                             ELSE Line("error", "value too great for base"))
                 ELSE stderr
    /\ LET w == resolve_window(window_seconds', specific_month, specific_day, clock, tz)
       IN  /\ end_ms' = w.end_ms
           /\ start_ms' = w.start_ms
    /\ pc' = "header"
    /\ UNCHANGED << inputs, backlog, pagesLeft, next_token, total_events,
                    events_file, read_pos, requests, responses, stdout, exit_status >>

\* Lines 164-173.
DisplayHeader ==
    /\ pc = "header"
    /\ stdout' = stdout \o << Line("window", << ArithVal(start_ms), ArithVal(end_ms) >>),
                              Line("group", log_group_name),
                              Line("pattern", "(none)"),
                              Line("blank", "") >>
    /\ events_file' = << >>
    /\ next_token' = NoToken
    /\ total_events' = 0
    /\ pc' = "fetch"
    /\ UNCHANGED << inputs, backlog, pagesLeft, now_ms, window_seconds, end_ms,
                    start_ms, read_pos, requests, responses, stderr, exit_status >>

\* Lines 175-182: the command is built and evaluated.
SendRequest ==
    /\ pc = "fetch"
    /\ requests' = Append(requests,
                          build_request(log_group_name, start_ms, end_ms, next_token))
    /\ pc' = "await"
    /\ UNCHANGED << inputs, backlog, pagesLeft, now_ms, window_seconds, end_ms,
                    start_ms, next_token, total_events, events_file, read_pos,
                    responses, stdout, stderr, exit_status >>

\* Lines 184-203 for the response `resp` of a call that ended with `call_status`.
HandleResponse(resp, call_status) ==
    IF status_seen(call_status) # 0
    THEN /\ stdout' = Append(stdout, Line("error", "Error fetching logs"))
         /\ events_file' = << >>
         /\ exit_status' = Num(1)
         /\ pc' = "done"
         /\ UNCHANGED << next_token, total_events >>
    ELSE /\ events_file' = append_events(events_file, resp.events)
         /\ total_events' = add_batch(total_events, resp.events)
         /\ next_token' = resp.nextToken
         /\ pc' = IF loop_continues(resp.nextToken) THEN "fetch" ELSE "count"
         /\ UNCHANGED << stdout, exit_status >>

\* The service answers with a page: some of the events it still has, and a
\* token when more pages follow.  A command line with an empty --end-time
\* cannot succeed.
ReceivePage ==
    /\ pc = "await"
    /\ end_ms # Empty
    /\ pagesLeft > 0
    /\ \E k \in 0..Len(backlog), token \in TokenPool \cup { NoToken } :
          /\ token # NoToken => pagesLeft > 1
          /\ LET resp == [ ok |-> TRUE, events |-> SubSeq(backlog, 1, k),
                           nextToken |-> token ]
             IN  /\ responses' = Append(responses, resp)
                 /\ backlog' = SubSeq(backlog, k + 1, Len(backlog))
                 /\ pagesLeft' = pagesLeft - 1
                 /\ HandleResponse(resp, 0)
    /\ UNCHANGED << inputs, now_ms, window_seconds, end_ms, start_ms, read_pos,
                    requests, stderr >>

\* The call fails (credentials, network, a malformed command line): the aws
\* command prints nothing on standard output and returns a non-zero status.
ReceiveFailure ==
    /\ pc = "await"
    /\ LET resp == [ ok |-> FALSE, events |-> << >>, nextToken |-> NoToken ]
       IN  /\ responses' = Append(responses, resp)
           /\ HandleResponse(resp, 255)
    /\ UNCHANGED << inputs, backlog, pagesLeft, now_ms, window_seconds, end_ms,
                    start_ms, read_pos, requests, stderr >>

\* Lines 205-209.
DisplayCount ==
    /\ pc = "count"
    /\ stdout' = stdout \o << Line("count", total_events), Line("blank", ""),
                              Line("table_header", "") >>
    /\ read_pos' = 0
    /\ pc' = "rows"
    /\ UNCHANGED << inputs, backlog, pagesLeft, now_ms, window_seconds, end_ms,
                    start_ms, next_token, total_events, events_file, requests,
                    responses, stderr, exit_status >>

\* Lines 212-233: one turn of the read loop.
DisplayRow ==
    /\ pc = "rows"
    /\ read_pos < Len(events_file)
    /\ stdout' = Append(stdout, render_row(events_file[read_pos + 1]))
    /\ read_pos' = read_pos + 1
    /\ UNCHANGED << inputs, backlog, pagesLeft, pc, now_ms, window_seconds, end_ms,
                    start_ms, next_token, total_events, events_file, requests,
                    responses, stderr, exit_status >>

\* Lines 233-240: the file is exhausted; it is removed and the script ends.
Finish ==
    /\ pc = "rows"
    /\ read_pos = Len(events_file)
    /\ events_file' = << >>
    /\ read_pos' = 0
    /\ exit_status' = Num(0)
    /\ pc' = "done"
    /\ UNCHANGED << inputs, backlog, pagesLeft, now_ms, window_seconds, end_ms,
                    start_ms, next_token, total_events, requests, responses,
                    stdout, stderr >>

Next ==
    \/ CheckLogGroup
    \/ ResolveWindow
    \/ DisplayHeader
    \/ SendRequest
    \/ ReceivePage
    \/ ReceiveFailure
    \/ DisplayCount
    \/ DisplayRow
    \/ Finish

Spec == Init /\ [][Next]_vars

SpecFetch == InitFetch /\ [][Next]_vars

SpecMessages == InitMessages /\ [][Next]_vars

----------------------------------------------------------------------------
(* What a run shows *)

KindsOf(out) == [ i \in 1..Len(out) |-> out[i].kind ]

IsRow(line) == line.kind = "row"

IsCount(line) == line.kind = "count"

RowsPrinted == SelectSeq(stdout, IsRow)

CountLines == SelectSeq(stdout, IsCount)

SummaryKinds == << "window", "group", "pattern", "blank" >>

TableKinds == { "count", "table_header", "row" }

\* The events of all the pages received, in the order of the requests.
Fetched == Flatten([ i \in 1..Len(responses) |-> responses[i].events ])

AllPagesOk == \A i \in 1..Len(responses) : responses[i].ok

FetchOver == pc \in { "count", "rows", "done" } /\ responses # << >>

RanToEnd == pc = "done" /\ requests # << >>

----------------------------------------------------------------------------
(* C1 *)

\* C1: whenever a filter-log-events call fails, the run reports an error and
\* terminates with a non-zero status: no further request is issued, no
\* event-count line and no event row is printed, and the run never exits 0.
C1_FailedCallIsFatal ==
    \A i \in 1..Len(responses) :
        ~responses[i].ok =>
            /\ Len(requests) = i
            /\ pc = "done"
            /\ exit_status # Empty /\ exit_status # Num(0)
            /\ \E j \in 1..Len(stdout) : stdout[j].kind = "error"
            /\ \A j \in 1..Len(stdout) : stdout[j].kind \notin { "count", "row" }

----------------------------------------------------------------------------
(* C2 *)

WindowParsed == pc \notin { "start", "main" } /\ log_group_name # ""

\* C2: for every window token whose unit part is not exactly one of m, h, d, w
\* the run terminates with a non-zero exit status and issues no query request:
\* the failure raised in window_to_seconds stops main before the fetch loop.
C2_UnsupportedWindowStopsRun ==
    (WindowParsed /\ window_unsupported(relative_window)) =>
        /\ pc = "done"
        /\ exit_status # Empty /\ exit_status # Num(0)
        /\ requests = << >>

----------------------------------------------------------------------------
(* C3 *)

\* C3: in every run, every query request that main issues has a start time
\* strictly less than its end time, whatever the window token, month and day.
C3_StartBeforeEnd ==
    \A i \in 1..Len(requests) :
        /\ requests[i].start_time # Empty
        /\ requests[i].end_time # Empty
        /\ ArithVal(requests[i].start_time) < ArithVal(requests[i].end_time)

----------------------------------------------------------------------------
(* C5 *)

MonthSpellings(i) ==
    { MonthNames[i],
      [ k \in 1..Len(MonthNames[i]) |->
          CHOOSE u \in DOMAIN UpperToLower : UpperToLower[u] = MonthNames[i][k] ],
      [ k \in 1..Len(MonthNames[i]) |->
          IF k = 1
          THEN CHOOSE u \in DOMAIN UpperToLower : UpperToLower[u] = MonthNames[i][k]
          ELSE MonthNames[i][k] ] }

MonthRecognised(name) == \E i \in 1..Len(MonthNames) : ToLower(name) = MonthNames[i]

\* C5: month_to_number maps each full English month name to 1..12 whatever the
\* letter case, and a run whose month parameter is any other name (other than
\* "current") terminates with a non-zero exit status before any query request
\* is issued.
C5_UnknownMonthRejected ==
    /\ \A i \in 1..Len(MonthNames) : \A name \in MonthSpellings(i) :
          month_to_number(name) = i
    /\ (WindowParsed /\ specific_month # Current /\ ~MonthRecognised(specific_month)) =>
          /\ pc = "done"
          /\ exit_status # Empty /\ exit_status # Num(0)
          /\ requests = << >>

----------------------------------------------------------------------------
(* C4 *)

\* C4: for a service that returns n successful pages, pages 1..n-1 carrying a
\* continuation token and page n none, the fetch loop issues exactly n requests
\* and the reported total is the sum of the event counts of the n pages.
C4_RequestsAndTotal ==
    (FetchOver /\ AllPagesOk) =>
        LET n == Len(responses)
        IN  /\ Len(requests) = n
            /\ \A i \in 1..(n - 1) : responses[i].nextToken # NoToken
            /\ responses[n].nextToken = NoToken
            /\ total_events = Len(Fetched)
            /\ pc \in { "rows", "done" } => CountLines = << Line("count", Len(Fetched)) >>

\* Two events and a token, then one event and no token: 2 requests, total 3.
C4_Witness ==
    /\ RanToEnd /\ AllPagesOk /\ exit_status = Num(0)
    /\ Len(responses) = 2 /\ Len(requests) = 2
    /\ Len(responses[1].events) = 2 /\ responses[1].nextToken # NoToken
    /\ Len(responses[2].events) = 1 /\ responses[2].nextToken = NoToken
    /\ CountLines = << Line("count", 3) >>

----------------------------------------------------------------------------
(* C6 *)

RECURSIVE DaysBeforeYear(_)
DaysBeforeYear(y) ==
    IF y <= 1970 THEN 0
    ELSE DaysBeforeYear(y - 1) + (IF IsLeap(y - 1) THEN 366 ELSE 365)

RECURSIVE DaysBeforeMonth(_, _)
DaysBeforeMonth(y, m) ==
    IF m <= 1 THEN 0 ELSE DaysBeforeMonth(y, m - 1) + DaysInMonth(y, m - 1)

\* The calendar day the parameters name: the year of the local date, the named
\* month or the current one, the chosen day or the current one.
ResolvedDay ==
    LET today == LocalDate(clock, tz)
    IN  [ year  |-> today.year,
          month |-> IF specific_month = Current THEN today.month
                    ELSE IF MonthRecognised(specific_month)
                         THEN CHOOSE i \in 1..12 : MonthNames[i] = ToLower(specific_month)
                         ELSE 0,
          day   |-> IF specific_day = current_day THEN today.day ELSE specific_day ]

ResolvedDayValid ==
    /\ ResolvedDay.month \in 1..12
    /\ ResolvedDay.day \in 1..DaysInMonth(ResolvedDay.year, ResolvedDay.month)

\* 23:59:59 local time on the resolved day, in epoch seconds.
EndOfResolvedDay ==
    ( DaysBeforeYear(ResolvedDay.year)
      + DaysBeforeMonth(ResolvedDay.year, ResolvedDay.month)
      + ResolvedDay.day ) * SecondsPerDay - 1 - tz

SpecificDate == specific_month # Current \/ specific_day # current_day

\* C6: in specific-date mode with a valid resolved day, end_ms is the smaller of
\* the end of the resolved day (in the current year) and now_ms, so it never
\* exceeds now_ms, and start_ms is end_ms minus the window's duration, taken
\* from the capped end; in relative mode end_ms is now_ms and start_ms is now_ms
\* minus the duration.  (The duration is the one main holds in window_seconds.)
C6_WindowBounds ==
    WindowParsed =>
        /\ now_ms = Num(clock)
        /\ (SpecificDate /\ ResolvedDayValid) =>
              /\ end_ms = Num(Min(EndOfResolvedDay, clock))
              /\ ArithVal(end_ms) <= ArithVal(now_ms)
              /\ start_ms = Num(ArithVal(end_ms) - ArithVal(window_seconds))
        /\ ~SpecificDate =>
              /\ end_ms = now_ms
              /\ start_ms = Num(ArithVal(now_ms) - ArithVal(window_seconds))

\* A chosen day that ends in the future, with a window of positive length.
C6_Witness ==
    /\ WindowParsed /\ SpecificDate /\ ResolvedDayValid
    /\ EndOfResolvedDay > clock
    /\ end_ms = now_ms
    /\ ArithVal(window_seconds) > 0
    /\ requests # << >>

----------------------------------------------------------------------------
(* C7 *)

FirstOf(S) == CHOOSE i \in S : \A j \in S : i <= j

\* The recognised fields the object has at all.
PresentFields(msg) == { i \in 1..Len(FieldOrder) : FieldOrder[i] \in DOMAIN msg.fields }

\* The recognised fields whose value is a string that is not empty once its
\* trailing newlines are dropped.
UsableFields(msg) ==
    { i \in PresentFields(msg) :
        /\ msg.fields[FieldOrder[i]].t = "string"
        /\ StripTrailingNewlines(msg.fields[FieldOrder[i]].s) # << >> }

ShownAs(j) == RowsPrinted[j].data.display_msg

----------------------------------------------------------------------------
(* C8 *)

Printed(kinds) == \E j \in 1..Len(stdout) : stdout[j].kind \in kinds

LastPageFetched ==
    /\ responses # << >>
    /\ Len(requests) = Len(responses)
    /\ responses[Len(responses)].nextToken = NoToken

\* C8 as stated: the summary lines, the table header and the event rows are
\* printed only after the last page has been fetched.
C8_AllOutputAfterFetch ==
    Printed({ "window", "group", "pattern", "table_header", "row" }) => LastPageFetched

\* C8 amended: the summary lines are printed before the first request; the
\* count line, the table header and the event rows, in that order, only after
\* the last page has been fetched, none of them while a request is outstanding
\* or still to be issued.
C8_TableAfterFetch ==
    log_group_name # "" =>
        /\ requests # << >> =>
              /\ Len(stdout) >= Len(SummaryKinds)
              /\ KindsOf(SubSeq(stdout, 1, Len(SummaryKinds))) = SummaryKinds
        /\ Printed(TableKinds) => (LastPageFetched /\ pc \in { "rows", "done" })
        /\ \A j \in 1..Len(stdout) :
              stdout[j].kind =
                  IF j <= 4 THEN SummaryKinds[j]
                  ELSE IF j = 5 THEN "count"
                  ELSE IF j = 6 THEN "blank"
                  ELSE IF j = 7 THEN "table_header"
                  ELSE "row"

\* A run of several pages that printed its table.
C8_Witness ==
    /\ RanToEnd /\ exit_status = Num(0)
    /\ Len(responses) >= 2
    /\ Len(RowsPrinted) >= 2
    /\ Printed({ "table_header" })

----------------------------------------------------------------------------
(* C9 *)

\* C9: after a successful fetch of n pages, the rows printed are the events of
\* the pages in request order, each page's events in the order received: one
\* row per event, none dropped, duplicated or reordered, as many as the total.
C9_RowsInArrivalOrder ==
    (AllPagesOk /\ requests # << >>) =>
        /\ pc = "rows" =>
              RowsPrinted = [ i \in 1..read_pos |-> render_row(Fetched[i]) ]
        /\ pc = "done" =>
              /\ RowsPrinted = [ i \in 1..Len(Fetched) |-> render_row(Fetched[i]) ]
              /\ CountLines = << Line("count", Len(RowsPrinted)) >>

\* Three rows from more than one page, not all for the same event.
C9_Witness ==
    /\ RanToEnd /\ AllPagesOk
    /\ Len(responses) >= 2
    /\ responses[1].events # << >> /\ responses[2].events # << >>
    /\ Len(RowsPrinted) = 3
    /\ RowsPrinted[1] # RowsPrinted[3]

----------------------------------------------------------------------------
(* C10 *)

\* C10: the first request carries no token, every later request carries the
\* token of the response just before it, the log group, start and end are the
\* same in every request, and the loop stops at the first response without a
\* token.
C10_TokenChain ==
    /\ Len(requests) \in { Len(responses), Len(responses) + 1 }
    /\ \A i \in 1..Len(requests) :
          /\ requests[i].next_token = IF i = 1 THEN NoToken ELSE responses[i - 1].nextToken
          /\ i > 1 => responses[i - 1].nextToken # NoToken
          /\ requests[i].log_group_name = requests[1].log_group_name
          /\ requests[i].start_time = requests[1].start_time
          /\ requests[i].end_time = requests[1].end_time
    /\ \A i \in 1..Len(responses) :
          responses[i].nextToken = NoToken => (Len(requests) = i /\ pc \notin { "fetch", "await" })
    /\ (pc \in { "count", "rows", "done" } /\ requests # << >>) =>
          responses[Len(responses)].nextToken = NoToken

\* A third request that carries the second response's token, not the first's.
C10_Witness ==
    /\ Len(requests) = 3 /\ Len(responses) >= 2
    /\ responses[1].nextToken # responses[2].nextToken
    /\ requests[2].next_token = responses[1].nextToken
    /\ requests[3].next_token = responses[2].nextToken

====
